---- MODULE Spec2Model ----
(***************************************************************************)
(* A model of the RecoveryPen AI backend (src/main.py): the three request  *)
(* handlers generate_guide, upload_doc and generate_docx, the files they   *)
(* read and write, and the responses they return.                          *)
(*                                                                         *)
(* Text is a sequence of atoms: a character typed by the client is a       *)
(* one-character string, a literal of the source is one atom holding the   *)
(* literal's text.  A filename is the sequence of its "/"-separated parts  *)
(* ("../a" is <<"..", "a">>, "/a" is <<"", "a">>, "" is <<"">>).           *)
(***************************************************************************)
EXTENDS Integers, Sequences, FiniteSets, TLC

VARIABLES fs,      \* the files on disk: location -> bytes
          task,    \* per worker: the request it handles, where it is, the document
                   \* it has saved, its response
          sent,    \* the prompt of the latest call of the completion API
          api,     \* how the latest call of the completion API ended
          lastUp,  \* history: filename -> bytes of its most recent completed upload
          fs0,     \* history: the files on disk when the server started
          n        \* requests received so far

vars == <<fs, task, sent, api, lastUp, fs0, n>>

\* ---------------------------------------------------------------- bounds
MaxRequests == 3
MaxObjectives == 2
MaxGuideLen == 3

\* ------------------------------------------------------------------ text
NL == "\n"
\* the one character U+2013, an en dash, which Latin-1 does not hold
EnDash == "U+2013"
TAB == "\t"
Whitespace == {" ", TAB, NL}

RECURSIVE JoinWith(_, _)
\* sep.join(parts)
JoinWith(sep, parts) ==
    IF parts = <<>> THEN <<>>
    ELSE IF Len(parts) = 1 THEN parts[1]
    ELSE parts[1] \o sep \o JoinWith(sep, Tail(parts))

\* tuples of length 0..k over S
SeqsUpTo(S, k) == UNION {[1..m -> S] : m \in 0..k}

\* an optional field of a request body: <<>> when omitted, <<v>> when given
Omitted == <<>>
Given(v) == <<v>>

\* ------------------------------------------------------------ filesystem
UPLOAD_FOLDER == <<".", "docs">>
STATIC_FOLDER == <<".", "static">>

Cwd == <<>>
Root == <<"/">>
NoEnt == <<"">>

\* the directories that exist: the working directory and its ancestors, the
\* root, and the two directories made at startup
IsDir(loc) ==
    \/ loc \in {Cwd, Root, <<"docs">>, <<"static">>}
    \/ loc # <<>> /\ \A i \in 1..Len(loc) : loc[i] = ".."

Parent(loc) ==
    IF loc = Root THEN Root
    ELSE IF loc = Cwd \/ loc[Len(loc)] = ".." THEN Append(loc, "..")
    ELSE SubSeq(loc, 1, Len(loc) - 1)

\* os.path.join(folder, name): an absolute name replaces the folder
PathJoin(folder, name) ==
    IF Len(name) >= 2 /\ name[1] = "" THEN name ELSE folder \o name

RECURSIVE Walk(_, _)
\* the location the remaining parts of a path name, starting from a directory
Walk(dir, parts) ==
    IF parts = <<>> THEN dir
    ELSE LET c == Head(parts)
             rest == Tail(parts)
         IN  IF c \in {"", "."} THEN Walk(dir, rest)
             ELSE IF c = ".." THEN Walk(Parent(dir), rest)
             ELSE IF rest = <<>> THEN Append(dir, c)
             ELSE IF IsDir(Append(dir, c)) THEN Walk(Append(dir, c), rest)
             ELSE NoEnt

\* the location a path names, as the operating system resolves it
Resolve(path) ==
    IF path[1] = "" /\ Len(path) >= 2 THEN Walk(Root, Tail(path))
    ELSE Walk(Cwd, path)

\* open(path, "wb") succeeds: the path names a file, present or not, in a directory
CanOpenForWrite(path) ==
    LET loc == Resolve(path) IN loc # NoEnt /\ ~IsDir(loc)

\* open(path, "wb"): the file is created, or truncated to nothing
OpenWB(files, loc) ==
    [l \in DOMAIN files \cup {loc} |-> IF l = loc THEN <<>> ELSE files[l]]

\* buffer.write(data) and the close that flushes it, from offset 0 of this
\* open file: the bytes beyond the data stay as they are
WriteClose(files, loc, data) ==
    LET old == IF loc \in DOMAIN files THEN files[loc] ELSE <<>>
    IN  [l \in DOMAIN files \cup {loc} |->
            IF l = loc THEN data \o SubSeq(old, Len(data) + 1, Len(old))
            ELSE files[l]]

\* os.path.exists(path)
PathExists(files, path) ==
    LET loc == Resolve(path) IN IsDir(loc) \/ loc \in DOMAIN files

\* --------------------------------------------------------- str methods
RECURSIVE Split(_, _)
\* s.split(sep), sep one character
Split(s, sep) ==
    IF \A i \in 1..Len(s) : s[i] # sep THEN <<s>>
    ELSE LET k == CHOOSE i \in 1..Len(s) :
                      s[i] = sep /\ \A j \in 1..(i - 1) : s[j] # sep
         IN  <<SubSeq(s, 1, k - 1)>> \o Split(SubSeq(s, k + 1, Len(s)), sep)

RECURSIVE LStrip(_)
LStrip(s) ==
    IF s # <<>> /\ Head(s) \in Whitespace THEN LStrip(Tail(s)) ELSE s

RECURSIVE RStrip(_)
RStrip(s) ==
    IF s # <<>> /\ s[Len(s)] \in Whitespace
    THEN RStrip(SubSeq(s, 1, Len(s) - 1)) ELSE s

\* s.strip()
Strip(s) == RStrip(LStrip(s))

\* s.startswith(p)
StartsWith(s, p) == Len(s) >= Len(p) /\ SubSeq(s, 1, Len(p)) = p

RECURSIVE Replace(_, _, _)
\* s.replace(old, new), old and new one character each
Replace(s, old, new) ==
    IF s = <<>> THEN <<>>
    ELSE <<IF Head(s) = old THEN new ELSE Head(s)>> \o Replace(Tail(s), old, new)

\* a filename as the text the client sent
FileNameText(name) == JoinWith(<<"/">>, [i \in 1..Len(name) |-> <<name[i]>>])

\* -------------------------------------------------------------- requests
\* GuideRequest(**body): the defaults of the optional fields
GuideRequest(body) ==
    [topic |-> body.topic,
     objectives |-> body.objectives,
     tone |-> IF body.tone = Omitted THEN <<"Empowering">> ELSE body.tone[1],
     format |-> IF body.format = Omitted THEN <<"group">> ELSE body.format[1]]

\* DocxRequest(**body): upload_summary defaults to None, written Omitted
DocxRequest(body) ==
    [topic |-> body.topic,
     objectives |-> body.objectives,
     guide |-> body.guide,
     upload_summary |-> body.upload_summary]

NoReq == [kind |-> "none"]
\* no document saved
NoDoc == [body |-> <<>>]
NoResp == [status |-> 0]
\* an exception no handler catches: the framework answers 500
ServerError == [status |-> 500]

\* ------------------------------------------------------- generate_guide
\* the objectives joined without their "- "
ObjectiveLinesBare(objectives) ==
    [i \in 1..Len(objectives) |-> objectives[i]]

\* one "- {obj}" per objective
ObjectiveLines(objectives) ==
    [i \in 1..Len(objectives) |-> <<"-", " ">> \o objectives[i]]

\* the f-string of generate_guide
prompt(request) ==
    <<"You are RecoveryPen AI, a trauma-informed assistant. Create a comprehensive, group-ready recovery guide on:",
      NL, NL, "Topic: ">> \o request.topic
    \o <<NL, NL, "Objectives:", NL>>
    \o JoinWith(<<NL>>, ObjectiveLines(request.objectives))
    \o <<NL, NL, "Tone: ">> \o request.tone
    \o <<NL, "Format: ">> \o request.format
    \o <<NL, NL, "The guide should include:", NL,
         "- Clear headings and sections", NL,
         "- Practical strategies", NL,
         "- Realistic examples", NL,
         "- Bullet points and group discussion prompts", NL,
         "- Closing summary", NL, NL,
         "Begin now.", NL>>

\* what the try block of generate_guide can end in: the completion's text, or an
\* exception e, of which the handler uses str(e)
ApiOutcomes ==
    {[raised |-> FALSE, text |-> <<"# ", "G", "u", "i", "d", "e">>],
     [raised |-> TRUE, text |-> <<"Connection error.">>],
     [raised |-> TRUE, text |-> <<"list index out of range">>],
     [raised |-> TRUE, text |-> <<>>]}

NoCall == [raised |-> FALSE, text |-> <<>>]

\* the except branch without its "error" key
GuideResponseNoError(outcome) ==
    [status |-> 200, guide |-> IF outcome.raised THEN <<>> ELSE outcome.text]

\* the dict generate_guide returns, as the framework's 200 response
GuideResponse(outcome) ==
    IF outcome.raised
    THEN [status |-> 200, guide |-> <<>>, error |-> outcome.text]
    ELSE [status |-> 200, guide |-> outcome.text]

generate_guide(w) ==
    /\ task[w].pc = "received"
    /\ task[w].req.kind = "guide"
    /\ \E outcome \in ApiOutcomes :
         /\ sent' = prompt(GuideRequest(task[w].req.body))
         /\ api' = outcome
         /\ task' = [task EXCEPT ![w].pc = "done",
                                 ![w].resp = GuideResponse(outcome)]
    /\ UNCHANGED <<fs, lastUp, fs0, n>>

\* ----------------------------------------------------------- upload_doc
UploadSummary(filename) ==
    <<"File '">> \o FileNameText(filename)
    \o <<"' uploaded and indexed. It will be used to enhance AI-guided generation.">>

UploadResponse(filename) ==
    [status |-> 200, message |-> <<"Upload complete.">>,
     summary |-> UploadSummary(filename)]

\* file_path = os.path.join(UPLOAD_FOLDER, file.filename)
file_path(filename) == PathJoin(UPLOAD_FOLDER, filename)

\* open(file_path, "wb"), before the body is read
upload_doc_open(w) ==
    /\ task[w].pc = "received"
    /\ task[w].req.kind = "upload"
    /\ LET path == file_path(task[w].req.filename)
       IN  IF CanOpenForWrite(path)
           THEN /\ fs' = OpenWB(fs, Resolve(path))
                /\ task' = [task EXCEPT ![w].pc = "opened"]
           ELSE /\ fs' = fs
                /\ task' = [task EXCEPT ![w].pc = "done", ![w].resp = ServerError]
    /\ UNCHANGED <<sent, api, lastUp, fs0, n>>

\* await file.read(): the handler is suspended until the body is there
upload_doc_read(w) ==
    /\ task[w].pc = "opened"
    /\ task' = [task EXCEPT ![w].pc = "read"]
    /\ UNCHANGED <<fs, sent, api, lastUp, fs0, n>>

\* buffer.write(...), the close at the end of the with block, and the return
upload_doc_write(w) ==
    /\ task[w].pc = "read"
    /\ LET r == task[w].req
       IN  /\ fs' = WriteClose(fs, Resolve(file_path(r.filename)), r.content)
           /\ task' = [task EXCEPT ![w].pc = "done",
                                   ![w].resp = UploadResponse(r.filename)]
           /\ lastUp' = [m \in DOMAIN lastUp \cup {r.filename} |->
                            IF m = r.filename THEN r.content ELSE lastUp[m]]
    /\ UNCHANGED <<sent, api, fs0, n>>

\* -------------------------------------------------------- generate_docx
\* one block of the document body, as python-docx appends it
Block(kind, style, text) == [kind |-> kind, style |-> style, text |-> text]

\* doc.add_picture(logo_path, width=Inches(2))
Picture == Block("picture", "Normal", <<"logo.png", "2in">>)
\* doc.add_paragraph() with the centered, bold, 20pt run of the cover
Cover ==
    Block("paragraph", "Normal, centered, bold, 20pt",
          <<"RecoveryPen AI", NL, "Trauma-Informed Companion", NL, NL>>)
\* doc.add_page_break()
PageBreak == Block("page_break", "Normal", <<>>)
\* doc.add_heading(text, level)
Heading(text, level) ==
    Block("heading", IF level = 1 THEN "Heading 1" ELSE "Heading 2", text)
\* doc.add_paragraph(text, style)
Paragraph(text, style) == Block("paragraph", style, text)

\* python-docx reads the picture's header: only an image can be added
IsImage(bytes) == bytes # <<>> /\ bytes[1] = "PNG signature"

logo_path == PathJoin(STATIC_FOLDER, <<"logo.png">>)

\* the logo added after the cover instead of before it
CoverPageLogoLast(files) ==
    <<Cover>>
    \o (IF PathExists(files, logo_path) THEN <<Picture>> ELSE <<>>)
    \o <<PageBreak>>

\* the blocks before the page break: the logo, when there is one, and the cover
CoverPage(files) ==
    (IF PathExists(files, logo_path) THEN <<Picture>> ELSE <<>>)
    \o <<Cover, PageBreak>>

\* add_picture raises on a file that is no image
LogoRaises(files) ==
    /\ PathExists(files, logo_path)
    /\ ~IsImage(files[Resolve(logo_path)])

\* one "- {obj}" bulleted paragraph per objective
ObjectiveParagraphs(objectives) ==
    [i \in 1..Len(objectives) |->
        Paragraph(<<"-", " ">> \o objectives[i], "List Bullet")]

\* the loop body testing the line as sent, not the stripped line, for its "-"
GuideParagraphRawDash(line) ==
    IF Strip(line) = <<>> THEN Paragraph(<<>>, "Normal")
    ELSE IF StartsWith(line, <<"-">>) THEN Paragraph(Strip(line), "List Bullet")
    ELSE Paragraph(Strip(line), "Normal")

\* the body of the loop over request.guide.split("\n")
GuideParagraph(line) ==
    IF Strip(line) = <<>> THEN Paragraph(<<>>, "Normal")
    ELSE IF StartsWith(Strip(line), <<"-">>) THEN Paragraph(Strip(line), "List Bullet")
    ELSE Paragraph(Strip(line), "Normal")

GuideParagraphs(guide) ==
    LET lines == Split(guide, NL)
    IN  [i \in 1..Len(lines) |-> GuideParagraph(lines[i])]

\* if request.upload_summary is not None
HasSummaryNotNone(upload_summary) == upload_summary # Omitted

\* if request.upload_summary: None and "" are both false
HasSummary(upload_summary) ==
    upload_summary # Omitted /\ upload_summary[1] # <<>>

SummaryBlocks(upload_summary) ==
    IF HasSummary(upload_summary)
    THEN <<Heading(<<"Upload Summary">>, 2), Paragraph(upload_summary[1], "Normal")>>
    ELSE <<>>

\* the main guide content, in the order of the add_ calls
MainContent(request) ==
    <<Heading(request.topic, 1), Heading(<<"Objectives">>, 2)>>
    \o ObjectiveParagraphs(request.objectives)
    \o <<Heading(<<"Recovery Guide">>, 2)>>
    \o GuideParagraphs(request.guide)
    \o SummaryBlocks(request.upload_summary)

\* the document generate_docx saves
Docx(files, request) ==
    [header |-> <<"RecoveryPen AI | Trauma-Informed Companion", "centered">>,
     footer |-> <<"Page - ", "centered">>,
     body |-> CoverPage(files) \o MainContent(request)]

\* f"attachment; filename={request.topic.replace(' ', '_')}_Recovery_Guide.docx"
ContentDisposition(topic) ==
    <<"attachment; filename=">> \o Replace(topic, " ", "_")
    \o <<"_Recovery_Guide.docx">>

\* the response encodes each header value as Latin-1, and raises when it cannot
HeaderEncodes(value) == \A i \in 1..Len(value) : value[i] # EnDash

\* the document when doc.save is reached, which add_picture's exception prevents
SavedDoc(files, request) ==
    IF LogoRaises(files) THEN NoDoc ELSE Docx(files, request)

DocxResponse(files, request) ==
    IF LogoRaises(files) THEN ServerError
    ELSE IF ~HeaderEncodes(ContentDisposition(request.topic)) THEN ServerError
    ELSE [status |-> 200,
          media_type |->
            "application/vnd.openxmlformats-officedocument.wordprocessingml.document",
          disposition |-> ContentDisposition(request.topic),
          doc |-> Docx(files, request)]

generate_docx(w) ==
    /\ task[w].pc = "received"
    /\ task[w].req.kind = "docx"
    /\ task' = [task EXCEPT ![w].pc = "done",
                            ![w].doc = SavedDoc(fs, DocxRequest(task[w].req.body)),
                            ![w].resp = DocxResponse(fs, DocxRequest(task[w].req.body))]
    /\ UNCHANGED <<fs, sent, api, lastUp, fs0, n>>

\* ------------------------------------------------------------ the inputs
Abc == <<"a", "b", "c">>
Png == <<"PNG signature", "i">>
Contents == {Abc, <<"z">>, Png}

FileNames ==
    {<<"notes.txt">>, <<"b.txt">>, <<".", "notes.txt">>,
     <<"..", "static", "logo.png">>, <<"", "evil">>, <<"sub", "x">>}

UploadRequests ==
    {[kind |-> "upload", filename |-> f, content |-> c] :
        f \in FileNames, c \in Contents}

Topics ==
    {<<>>, <<"M">>, <<"M", "y", " ", "P", "l", "a", "n">>, <<" ", "M", " ", " ">>,
     <<"M", " ", EnDash, " ", "P">>}
Objectives == {<<"B">>, <<"R", " ">>}
ObjectiveLists == SeqsUpTo(Objectives, MaxObjectives)
GuideChars == {"x", "-", " ", NL}
Guides == SeqsUpTo(GuideChars, MaxGuideLen)
Summaries == {Omitted, Given(<<>>), Given(<<"s">>)}
Tones == {Omitted, Given(<<"C", "a", "l", "m">>)}
Formats == {Omitted, Given(<<"s", "o", "l", "o">>)}

GuideRequests ==
    {[kind |-> "guide", body |-> b] :
        b \in [topic : Topics, objectives : ObjectiveLists,
               tone : Tones, format : Formats]}

DocxRequests ==
    {[kind |-> "docx", body |-> b] :
        b \in [topic : Topics, objectives : ObjectiveLists,
               guide : Guides, upload_summary : Summaries]}

\* the requests of the whole-server specification: every upload, and one
\* guide and two document requests
FewRequests ==
    UploadRequests
    \cup {[kind |-> "guide",
           body |-> [topic |-> <<"M">>, objectives |-> <<<<"B">>>>,
                     tone |-> Omitted, format |-> Omitted]]}
    \cup {[kind |-> "docx",
           body |-> [topic |-> <<"M">>, objectives |-> <<<<"B">>>>,
                     guide |-> <<"x">>, upload_summary |-> s]] :
            s \in {Omitted, Given(<<"s">>)}}

\* ---------------------------------------------------- the specifications
Workers == {1, 2}

NoFiles == [l \in {} |-> <<>>]
LogoLoc == <<"static", "logo.png">>
\* the static folder as deployed: no logo, a logo, or a file that is no image
InitialFiles == {NoFiles, [l \in {LogoLoc} |-> Png], [l \in {LogoLoc} |-> Abc]}

Idle == [pc |-> "idle", req |-> NoReq, doc |-> NoDoc, resp |-> NoResp]
Received(r) == [pc |-> "received", req |-> r, doc |-> NoDoc, resp |-> NoResp]

Init ==
    /\ fs \in InitialFiles
    /\ fs0 = fs
    /\ task = [w \in Workers |-> Idle]
    /\ sent = <<>>
    /\ api = NoCall
    /\ lastUp = NoFiles
    /\ n = 0

\* a request arrives and is given to a free worker
Receive(w, r) ==
    /\ task[w].pc \in {"idle", "done"}
    /\ n < MaxRequests
    /\ task' = [task EXCEPT ![w] = Received(r)]
    /\ n' = n + 1
    /\ UNCHANGED <<fs, sent, api, lastUp, fs0>>

\* requests handled one after the other
ReceiveNext == \E r \in FewRequests : Receive(1, r)

Next ==
    \/ ReceiveNext
    \/ generate_guide(1)
    \/ upload_doc_open(1)
    \/ upload_doc_read(1)
    \/ upload_doc_write(1)
    \/ generate_docx(1)

Spec == Init /\ [][Next]_vars

\* uploads handled concurrently: a handler suspended in its await lets another run
ReceiveUpload == \E w \in Workers : \E r \in UploadRequests : Receive(w, r)

NextConc ==
    \/ ReceiveUpload
    \/ \E w \in Workers : upload_doc_open(w)
    \/ \E w \in Workers : upload_doc_read(w)
    \/ \E w \in Workers : upload_doc_write(w)

SpecConc == Init /\ [][NextConc]_vars

\* one guide request, handled
InitGuide ==
    /\ fs \in InitialFiles
    /\ fs0 = fs
    /\ \E r \in GuideRequests : task = [w \in Workers |-> IF w = 1 THEN Received(r) ELSE Idle]
    /\ sent = <<>>
    /\ api = NoCall
    /\ lastUp = NoFiles
    /\ n = 1

SpecGuide == InitGuide /\ [][generate_guide(1)]_vars

\* one document request, handled
InitDocx ==
    /\ fs \in InitialFiles
    /\ fs0 = fs
    /\ \E r \in DocxRequests : task = [w \in Workers |-> IF w = 1 THEN Received(r) ELSE Idle]
    /\ sent = <<>>
    /\ api = NoCall
    /\ lastUp = NoFiles
    /\ n = 1

SpecDocx == InitDocx /\ [][generate_docx(1)]_vars

\* ------------------------------------------------------------ the claims
\* the request worker 1 has answered, and the answer
Answered(kind) == task[1].pc = "done" /\ task[1].req.kind = kind
Body == task[1].req.body
Resp == task[1].resp

\* sub occurs in s
Contains(s, sub) ==
    \E i \in 0..(Len(s) - Len(sub)) : SubSeq(s, i + 1, i + Len(sub)) = sub

\* line fills a whole line of s from position i on
IsLineAt(s, line, i) ==
    /\ i >= 1
    /\ i + Len(line) - 1 <= Len(s)
    /\ SubSeq(s, i, i + Len(line) - 1) = line
    /\ i = 1 \/ s[i - 1] = NL
    /\ i + Len(line) > Len(s) \/ s[i + Len(line)] = NL

\* the first position from `from` on where line fills a whole line of s, or 0
FirstLineAt(s, line, from) ==
    LET at == {i \in from..Len(s) : IsLineAt(s, line, i)}
    IN  IF at = {} THEN 0 ELSE CHOOSE i \in at : \A j \in at : i <= j

RECURSIVE LinesInOrder(_, _, _)
\* each of lines fills a whole line of s, one after the other, from `from` on
LinesInOrder(s, lines, from) ==
    IF lines = <<>> THEN TRUE
    ELSE LET i == FirstLineAt(s, Head(lines), from)
         IN  i # 0 /\ LinesInOrder(s, Tail(lines), i + Len(Head(lines)))

\* the n-th line break of g: 0 before the first line, Len(g) + 1 after the last
Breaks(g) == {i \in 1..Len(g) : g[i] = NL}
NthBreak(g, k) ==
    IF k = 0 THEN 0
    ELSE IF k > Cardinality(Breaks(g)) THEN Len(g) + 1
    ELSE CHOOSE b \in Breaks(g) : Cardinality({j \in Breaks(g) : j < b}) = k - 1
NumLines(g) == Cardinality(Breaks(g)) + 1
LineOf(g, k) == SubSeq(g, NthBreak(g, k - 1) + 1, NthBreak(g, k) - 1)

\* a line without the whitespace around it
Inked(l) == {i \in 1..Len(l) : l[i] \notin Whitespace}
Trimmed(l) ==
    IF Inked(l) = {} THEN <<>>
    ELSE SubSeq(l, CHOOSE i \in Inked(l) : \A j \in Inked(l) : i <= j,
                   CHOOSE i \in Inked(l) : \A j \in Inked(l) : i >= j)

\* the place of the first block of a kind with a text, or 0
PlaceOf(blocks, kind, text) ==
    LET at == {i \in 1..Len(blocks) : blocks[i].kind = kind /\ blocks[i].text = text}
    IN  IF at = {} THEN 0 ELSE CHOOSE i \in at : \A j \in at : i <= j

\* the blocks after the cover's page break
AfterBreak(blocks) ==
    SubSeq(blocks, PlaceOf(blocks, "page_break", <<>>) + 1, Len(blocks))

\* the blocks from the one after the "Recovery Guide" heading up to the next heading
GuideBlocks(blocks) ==
    LET h == PlaceOf(blocks, "heading", <<"Recovery Guide">>)
        later == {i \in (h + 1)..Len(blocks) : blocks[i].kind = "heading"}
        end == IF later = {} THEN Len(blocks)
               ELSE (CHOOSE i \in later : \A j \in later : i <= j) - 1
    IN  SubSeq(blocks, h + 1, end)

\* C1 as stated: whenever the completion call fails, generate_guide answers 200
\* with guide "" and an error field that is present and not empty
C1_Original ==
    (Answered("guide") /\ api.raised) =>
        /\ Resp.status = 200
        /\ Resp.guide = <<>>
        /\ "error" \in DOMAIN Resp
        /\ Resp.error # <<>>

\* C1 amended: whenever the completion call raises an Exception e, generate_guide
\* answers 200 with guide "" and an error field that is present and holds str(e);
\* the field is empty exactly when str(e) is
C1_ErrorInBand ==
    (Answered("guide") /\ api.raised) =>
        /\ Resp.status = 200
        /\ Resp.guide = <<>>
        /\ "error" \in DOMAIN Resp
        /\ Resp.error = api.text

C1_Witness ==
    /\ Answered("guide")
    /\ api.raised
    /\ Resp.error = <<"Connection error.">>

\* C2: once the server is at rest, the file for every uploaded filename holds the
\* bytes of the latest upload under that name, and an upload's summary holds its
\* filename
C2_LatestUploadStored ==
    /\ task[1].pc \in {"idle", "done"} =>
         \A m \in DOMAIN lastUp :
            /\ Resolve(file_path(m)) \in DOMAIN fs
            /\ fs[Resolve(file_path(m))] = lastUp[m]
    /\ (Answered("upload") /\ Resp.status = 200) =>
         Contains(Resp.summary, FileNameText(task[1].req.filename))

\* C3: every file an upload has created or changed lies under the uploads folder
C3_WritesUnderUploads ==
    \A l \in DOMAIN fs :
        (l \notin DOMAIN fs0 \/ fs[l] # fs0[l]) => (Len(l) >= 2 /\ l[1] = "docs")

\* the answer a request gets when it is the first the server handles
FirstAnswer(r) ==
    IF r.kind = "docx" THEN DocxResponse(fs0, DocxRequest(r.body))
    ELSE IF r.kind = "guide" THEN GuideResponse(api)
    ELSE IF CanOpenForWrite(file_path(r.filename)) THEN UploadResponse(r.filename)
    ELSE ServerError

\* C4: the answer to a request does not depend on the requests handled before it:
\* it is the answer the request gets as the first one
C4_HistoryIndependent ==
    task[1].pc = "done" => Resp = FirstAnswer(task[1].req)

\* the document generate_docx has saved for the request it has answered
Saved == task[1].doc
Assembled == Answered("docx") /\ Saved # NoDoc

\* C5: the paragraphs after the "Recovery Guide" heading are the lines of the
\* guide, one for one and in order: a blank paragraph for a line of whitespace, a
\* bulleted one with the trimmed text when that starts with "-", else a plain
\* one with the trimmed text
C5_GuideLines ==
    Assembled =>
        LET ps == GuideBlocks(Saved.body)
            g == Body.guide
        IN  /\ Len(ps) = NumLines(g)
            /\ \A k \in 1..Len(ps) :
                 LET t == Trimmed(LineOf(g, k))
                 IN  /\ ps[k].kind = "paragraph"
                     /\ ps[k].text = t
                     /\ ps[k].style =
                          (IF t # <<>> /\ t[1] = "-" THEN "List Bullet" ELSE "Normal")

C5_Witness ==
    /\ Assembled
    /\ Body.guide = <<" ", NL, "-">>
    /\ Len(GuideBlocks(Saved.body)) = 2
    /\ GuideBlocks(Saved.body)[2].style = "List Bullet"

\* the body after the page break, given whether the summary counts as supplied
BodyInOrder(supplied) ==
    LET rest == AfterBreak(Saved.body)
        k == Len(Body.objectives)
        m == NumLines(Body.guide)
        tail == SubSeq(rest, 3 + k + m + 1, Len(rest))
    IN  /\ Len(rest) >= 3 + k + m
        /\ rest[1].kind = "heading" /\ rest[1].style = "Heading 1"
        /\ rest[1].text = Body.topic
        /\ rest[2].kind = "heading" /\ rest[2].style = "Heading 2"
        /\ rest[2].text = <<"Objectives">>
        /\ \A i \in 1..k :
             /\ rest[2 + i].kind = "paragraph"
             /\ rest[2 + i].style = "List Bullet"
             /\ rest[2 + i].text = <<"-", " ">> \o Body.objectives[i]
        /\ rest[3 + k].kind = "heading" /\ rest[3 + k].style = "Heading 2"
        /\ rest[3 + k].text = <<"Recovery Guide">>
        /\ \A i \in 1..m : rest[3 + k + i].kind = "paragraph"
        /\ IF supplied
           THEN /\ Len(tail) = 2
                /\ tail[1].kind = "heading" /\ tail[1].style = "Heading 2"
                /\ tail[1].text = <<"Upload Summary">>
                /\ tail[2].kind = "paragraph"
                /\ tail[2].text = Body.upload_summary[1]
           ELSE tail = <<>>

\* C6 as stated: the body after the page break is the topic heading, the
\* objectives, the guide, and the summary section if and only if an upload
\* summary was supplied
C6_Original ==
    Assembled => BodyInOrder(Body.upload_summary # Omitted)

\* C6 amended: the same, with the summary section there if and only if an upload
\* summary was supplied and is not the empty string
C6_BodyOrder ==
    Assembled =>
        BodyInOrder(Body.upload_summary # Omitted /\ Body.upload_summary[1] # <<>>)

C6_Witness ==
    /\ Assembled
    /\ Len(Body.objectives) = 2
    /\ Body.upload_summary = Given(<<"s">>)
    /\ Saved.body[Len(Saved.body)].text = <<"s">>

\* C7: for every topic, generate_docx returns the attachment filename that is the
\* topic, each space an underscore and every other character as it is, followed
\* by "_Recovery_Guide.docx"
C7_AttachmentName ==
    Assembled =>
        /\ Resp.status = 200
        /\ LET d == Resp.disposition
               t == Body.topic
           IN  /\ Len(d) = Len(t) + 2
               /\ d[1] = "attachment; filename="
               /\ \A i \in 1..Len(t) : d[i + 1] = (IF t[i] = " " THEN "_" ELSE t[i])
               /\ d[Len(d)] = "_Recovery_Guide.docx"

\* C8 as stated: generate_docx succeeds with or without a file at the logo path;
\* without one the document holds no picture, with one the picture comes first,
\* before the title block
C8_Original ==
    Answered("docx") =>
        /\ Saved # NoDoc
        /\ LogoLoc \notin DOMAIN fs =>
             \A i \in 1..Len(Saved.body) : Saved.body[i].kind # "picture"
        /\ LogoLoc \in DOMAIN fs =>
             /\ Saved.body[1].kind = "picture"
             /\ Saved.body[2].text[1] = "RecoveryPen AI"

\* C8 amended: generate_docx assembles its document without a file at the logo
\* path (no picture in it) and with a file there that is an image (the picture
\* first, before the title block); with a file there that is no image it fails
C8_Logo ==
    Answered("docx") =>
        /\ LogoLoc \notin DOMAIN fs =>
             /\ Saved # NoDoc
             /\ \A i \in 1..Len(Saved.body) : Saved.body[i].kind # "picture"
        /\ (LogoLoc \in DOMAIN fs /\ IsImage(fs[LogoLoc])) =>
             /\ Saved # NoDoc
             /\ Saved.body[1].kind = "picture"
             /\ Saved.body[2].text[1] = "RecoveryPen AI"
        /\ (LogoLoc \in DOMAIN fs /\ ~IsImage(fs[LogoLoc])) =>
             /\ Saved = NoDoc
             /\ Resp.status = 500

C8_Witness ==
    /\ Answered("docx")
    /\ LogoLoc \in DOMAIN fs
    /\ Resp.status = 200
    /\ Saved.body[1].kind = "picture"

\* C9: the prompt holds one line "- <objective>" per objective, in input order,
\* and the lines of the topic, of the tone and of the format, the last two with
\* "Empowering" and "group" when the request omits them
C9_Prompt ==
    Answered("guide") =>
        LET tone == IF Body.tone = Omitted THEN <<"Empowering">> ELSE Body.tone[1]
            format == IF Body.format = Omitted THEN <<"group">> ELSE Body.format[1]
        IN  /\ LinesInOrder(sent,
                   [i \in 1..Len(Body.objectives) |-> <<"-", " ">> \o Body.objectives[i]],
                   1)
            /\ FirstLineAt(sent, <<"Topic: ">> \o Body.topic, 1) # 0
            /\ FirstLineAt(sent, <<"Tone: ">> \o tone, 1) # 0
            /\ FirstLineAt(sent, <<"Format: ">> \o format, 1) # 0

C9_Witness ==
    /\ Answered("guide")
    /\ Body.objectives = <<<<"B">>, <<"R", " ">>>>
    /\ Body.tone = Given(<<"C", "a", "l", "m">>)
    /\ Body.format = Omitted
    /\ Contains(sent, <<NL, "-", " ", "B", NL, "-", " ", "R", " ", NL>>)

\* C10: once two uploads of one filename have both been answered, the file holds
\* all the bytes of one of them and nothing else
C10_OneUploadWins ==
    (/\ \A w \in Workers : task[w].pc = "done" /\ task[w].req.kind = "upload"
                           /\ task[w].resp.status = 200
     /\ task[1].req.filename = task[2].req.filename)
    => fs[Resolve(file_path(task[1].req.filename))]
         \in {task[1].req.content, task[2].req.content}

====
